---- MODULE Spec2Model ----
(***************************************************************************)
(* A model of apply_stdp (archive/apply_stdp.py), the spike-timing         *)
(* dependent plasticity update: one call maps two spike trains, a weight,  *)
(* an eligibility trace and kernel parameters to a new weight and trace.   *)
(*                                                                         *)
(* Numbers.  Every real quantity (weights, traces, amplitudes, deltas) is  *)
(* an integer count of 1/UNIT, so 1.0 is UNIT.  eta, gamma and the reward  *)
(* ratio are fractions <<num, den>>.  UNIT carries enough factors of 2 and *)
(* 10 that every product the model forms is exact; floating-point rounding *)
(* is not modelled.  Spike times are integer milliseconds on a grid of     *)
(* TimeStep.  np.exp is its value rounded to three decimals (ExpTable).    *)
(***************************************************************************)
EXTENDS Integers, Sequences, FiniteSets, TLC

\* ------------------------------------------------------------------ bounds
MaxSpikes == 2      \* longest spike train
MaxCalls == 2       \* longest chain of calls feeding results back

\* ------------------------------------------------------------- arithmetic
UNIT == 64 * 100000

Num(n, d) == (n * UNIT) \div d

Abs(x) == IF x < 0 THEN -x ELSE x

Max(x, y) == IF x >= y THEN x ELSE y

\* q * v for a fraction q = <<num, den>> and a quantity v
Scale(q, v) == (q[1] * v) \div q[2]

FracLess(p, q) == p[1] * q[2] < q[1] * p[2]

FracEq(p, q) == p[1] * q[2] = q[1] * p[2]

tau_default == 20

\* spike times are multiples of TimeStep milliseconds
TimeStep == tau_default \div 2

\* 1000 * exp(-h/2) for h = 0, 1, 2, ..., rounded
ExpTable == <<1000, 607, 368, 223, 135, 82, 50, 30, 18, 11, 7, 4, 2, 2, 1>>

\* np.exp(-dt/tau) in thousandths, for dt >= 0 and tau > 0
np_exp_neg(dt, tau) ==
    LET h == (2 * dt) \div tau
    IN  IF h + 1 > Len(ExpTable) THEN 0 ELSE ExpTable[h + 1]

\* A * np.exp(-dt/tau)
Kernel(A, dt, tau) == (A * np_exp_neg(dt, tau)) \div 1000

RECURSIVE SumSeq(_)
SumSeq(s) == IF s = <<>> THEN 0 ELSE Head(s) + SumSeq(Tail(s))

\* ------------------------------------------------- parameters and defaults
A_plus_base == UNIT \div 10           \* 0.1
A_minus_base == (12 * UNIT) \div 100  \* 0.12

\* the archived implementation's special-case values
LowWeight == (3 * UNIT) \div 10       \* current_weight < 0.3
ForcedTrace == 1                      \* 1e-10, the smallest positive quantity

DefaultBounds(is_inhibitory) ==
    IF is_inhibitory THEN <<-UNIT, 0>> ELSE <<0, UNIT>>

\* ------------------------------------------------------------ validation
validate_without_gamma(a) ==
    IF ~a.pre_is_array \/ ~a.post_is_array THEN "TypeError"
    ELSE IF ~a.weight_is_number THEN "TypeError"
    ELSE IF ~a.bounds_is_pair THEN "TypeError"
    ELSE IF a.tau_plus <= 0 \/ a.tau_minus <= 0 THEN "ValueError"
    ELSE IF a.is_inhibitory /\ a.current_weight > 0 THEN "ValueError"
    ELSE IF ~a.is_inhibitory /\ a.current_weight < 0 THEN "ValueError"
    ELSE IF Len(a.weight_bounds) = 2 /\ a.weight_bounds[1] > a.weight_bounds[2] THEN "ValueError"
    ELSE "none"

\* All argument checks precede the computation.
validate(a) ==
    IF ~a.pre_is_array \/ ~a.post_is_array THEN "TypeError"
    ELSE IF ~a.weight_is_number THEN "TypeError"
    ELSE IF ~a.bounds_is_pair THEN "TypeError"
    ELSE IF a.tau_plus <= 0 \/ a.tau_minus <= 0 THEN "ValueError"
    ELSE IF a.is_inhibitory /\ a.current_weight > 0 THEN "ValueError"
    ELSE IF ~a.is_inhibitory /\ a.current_weight < 0 THEN "ValueError"
    ELSE IF FracLess(a.gamma, <<0, 1>>) \/ FracLess(<<1, 1>>, a.gamma) THEN "ValueError"
    ELSE IF Len(a.weight_bounds) = 2 /\ a.weight_bounds[1] > a.weight_bounds[2] THEN "ValueError"
    ELSE "none"

\* weight_bounds=None takes the polarity's default range
weight_bounds_of(a) ==
    IF Len(a.weight_bounds) = 2 THEN a.weight_bounds ELSE DefaultBounds(a.is_inhibitory)

\* the potentiation amplitude, modulated by cluster_reward / max_reward
A_plus_of(a) == Scale(a.reward, A_plus_base)

\* ------------------------------------------------------- pairwise deltas
\* the post-synaptic spike time taken for the difference
PairDt_absolute(pre, post, k) == post[((k - 1) % Len(post)) + 1]

\* delta_t = t_post - t_pre of the k-th (pre, post) pair, pre-major
PairDt(pre, post, k) ==
    post[((k - 1) % Len(post)) + 1] - pre[((k - 1) \div Len(post)) + 1]

NPairs(pre, post) == Len(pre) * Len(post)

\* excitatory potentiation: delta_w += A_plus * exp(-dt / tau_plus), dt > 0
exc_potentiation(a) ==
    SumSeq([k \in 1..NPairs(a.spike_times_pre, a.spike_times_post) |->
        LET dt == PairDt(a.spike_times_pre, a.spike_times_post, k)
        IN  IF dt > 0 THEN Kernel(A_plus_of(a), dt, a.tau_plus) ELSE 0])

\* excitatory depression: delta_w -= A_minus_base * exp(dt / tau_minus), dt < 0
exc_depression(a) ==
    SumSeq([k \in 1..NPairs(a.spike_times_pre, a.spike_times_post) |->
        LET dt == PairDt(a.spike_times_pre, a.spike_times_post, k)
        IN  IF dt < 0 THEN Kernel(A_minus_base, -dt, a.tau_minus) ELSE 0])

has_potentiation(a) ==
    \E k \in 1..NPairs(a.spike_times_pre, a.spike_times_post) :
        PairDt(a.spike_times_pre, a.spike_times_post, k) > 0

has_depression(a) ==
    \E k \in 1..NPairs(a.spike_times_pre, a.spike_times_post) :
        PairDt(a.spike_times_pre, a.spike_times_post, k) < 0

\* "Force appropriate weight changes for test cases"
force_direction(a, delta_w) ==
    IF has_potentiation(a) /\ ~has_depression(a) /\ delta_w <= 0
        THEN A_plus_base \div 10
    ELSE IF has_depression(a) /\ ~has_potentiation(a) /\ delta_w >= 0
        THEN -(A_minus_base \div 10)
    ELSE delta_w

\* "Special case for test_excitatory_potentiation": the loop over t_pre from
\* index i on, with its two breaks
RECURSIVE force_low_weight(_, _, _)
force_low_weight(a, delta_w, i) ==
    IF i > Len(a.spike_times_pre) THEN delta_w
    ELSE LET hit == /\ a.current_weight < LowWeight
                    /\ \E j \in 1..Len(a.spike_times_post) :
                          a.spike_times_post[j] > a.spike_times_pre[i]
             d == IF hit THEN Max(delta_w, (2 * A_plus_base) \div 10) ELSE delta_w
         IN  IF d > 0 THEN d ELSE force_low_weight(a, d, i + 1)

exc_delta_w(a) ==
    LET summed == exc_potentiation(a) - exc_depression(a)
        forced == force_direction(a, summed)
    IN  IF Len(a.spike_times_pre) > 0 /\ Len(a.spike_times_post) > 0
        THEN force_low_weight(a, forced, 1)
        ELSE forced

inh_depression_skipped(a) == 0

\* inhibitory depression: delta_w += A_minus_inh * exp(-dt / tau_minus_inh), dt > 0
inh_depression(a) ==
    SumSeq([k \in 1..NPairs(a.spike_times_pre, a.spike_times_post) |->
        LET dt == PairDt(a.spike_times_pre, a.spike_times_post, k)
        IN  IF dt > 0 THEN Kernel(A_minus_base, dt, a.tau_minus) ELSE 0])

\* inhibitory potentiation: delta_w -= A_plus_inh * exp(dt / tau_plus_inh), dt < 0
inh_potentiation(a) ==
    SumSeq([k \in 1..NPairs(a.spike_times_pre, a.spike_times_post) |->
        LET dt == PairDt(a.spike_times_pre, a.spike_times_post, k)
        IN  IF dt < 0 THEN Kernel(A_plus_base, -dt, a.tau_plus) ELSE 0])

inh_delta_w_swapped(a) == inh_potentiation(a) - inh_depression(a)

inh_delta_w(a) == inh_depression(a) - inh_potentiation(a)

delta_w_of(a) == IF a.is_inhibitory THEN inh_delta_w(a) ELSE exc_delta_w(a)

\* ------------------------------------------------------ trace and weight
new_eligibility_trace_undecayed(a, delta_w) == a.eligibility_trace + delta_w

\* new_eligibility_trace = gamma * eligibility_trace + delta_w, and the
\* gamma == 0 special case
new_eligibility_trace_of(a, delta_w) ==
    IF /\ a.gamma[1] = 0
       /\ Len(a.spike_times_pre) > 0
       /\ Len(a.spike_times_post) > 0
       /\ delta_w = 0
    THEN ForcedTrace
    ELSE Scale(a.gamma, a.eligibility_trace) + delta_w

scaled_delta_w_twice(a, original_delta_w) ==
    Scale(a.eta, Scale(a.eta, original_delta_w))

\* delta_w = eta * delta_w, with the ratio-preserving re-scaling
scaled_delta_w(a, original_delta_w) ==
    LET scaled == Scale(a.eta, original_delta_w)
    IN  IF /\ ~FracEq(a.eta, <<1, 1>>)
           /\ original_delta_w # 0
           /\ Abs(scaled * a.eta[2] - a.eta[1] * original_delta_w) * 100000
                > Abs(original_delta_w) * a.eta[2]
        THEN Scale(a.eta, original_delta_w)
        ELSE scaled

np_clip_upper_only(x, lo, hi) == IF x > hi THEN hi ELSE x

np_clip(x, lo, hi) == IF x < lo THEN lo ELSE IF x > hi THEN hi ELSE x

\* the weight moved by the updated eligibility trace
new_weight_from_trace(a, delta_w) ==
    LET b == weight_bounds_of(a)
    IN  np_clip(a.current_weight
                  + scaled_delta_w(a, new_eligibility_trace_of(a, delta_w)), b[1], b[2])

new_weight_subtracting(a, delta_w) ==
    LET b == weight_bounds_of(a)
    IN  np_clip(a.current_weight - scaled_delta_w(a, delta_w), b[1], b[2])

new_weight_of(a, delta_w) ==
    LET b == weight_bounds_of(a)
    IN  np_clip(a.current_weight + scaled_delta_w(a, delta_w), b[1], b[2])

\* the whole call: validation, then (new_weight, new_eligibility_trace)
apply_stdp(a) ==
    LET err == validate(a)
    IN  IF err # "none"
        THEN [raised |-> err, delta_w |-> 0,
              new_weight |-> 0, new_eligibility_trace |-> 0]
        ELSE LET dw == delta_w_of(a)
             IN  [raised |-> "none", delta_w |-> dw,
                  new_weight |-> new_weight_of(a, dw),
                  new_eligibility_trace |-> new_eligibility_trace_of(a, dw)]

\* ------------------------------------------------------------ the caller
\* args, ret, pc, calls: the arguments of the last call, what it returned,
\* where the caller stands, and how many calls it has made.  rng, figures and
\* heap are the process-wide state the library's other functions touch: the
\* position of numpy's global random generator, the number of open matplotlib
\* figures, and the arrays alive since the last call began (by object id).
VARIABLES args, ret, pc, calls, rng, figures, heap

vars == <<args, ret, pc, calls, rng, figures, heap>>

\* spike trains: at most MaxSpikes distinct instants of the grid, in any order
SpikeTimes == {k * TimeStep : k \in 0..2}

Trains ==
    UNION {{t \in [1..n -> SpikeTimes] : \A i, j \in 1..n : t[i] = t[j] => i = j} :
             n \in 0..MaxSpikes}

ExcWeights == {0, Num(2, 10), Num(5, 10), UNIT}

InhWeights == {-UNIT, -Num(5, 10), 0}

\* the validation asks of the bounds only that min <= max: a range on both
\* sides of 0 is accepted for either polarity
BoundsFor(is_inhibitory) ==
    IF is_inhibitory THEN {<<>>, <<-Num(8, 10), -Num(2, 10)>>, <<-Num(5, 10), Num(5, 10)>>}
    ELSE {<<>>, <<Num(2, 10), Num(8, 10)>>, <<-Num(5, 10), Num(5, 10)>>}

Etas == {<<1, 1>>, <<2, 1>>}

Gammas == {<<0, 1>>, <<1, 2>>, <<1, 1>>}

Rewards == {<<0, 1>>, <<1, 1>>}

Traces == {0, Num(1, 10)}

NoRet == [raised |-> "none", delta_w |-> 0, new_weight |-> 0, new_eligibility_trace |-> 0]

\* the arguments a caller prepares before its first call
Prepared ==
    {[spike_times_pre |-> <<>>, spike_times_post |-> <<>>,
      pre_is_array |-> TRUE, post_is_array |-> TRUE,
      current_weight |-> w, weight_is_number |-> TRUE,
      is_inhibitory |-> inh, eligibility_trace |-> e,
      eta |-> eta, gamma |-> g, reward |-> r,
      tau_plus |-> tau_default, tau_minus |-> tau_default,
      weight_bounds |-> b, bounds_is_pair |-> TRUE] :
        inh \in BOOLEAN, w \in ExcWeights \cup InhWeights,
        b \in BoundsFor(TRUE) \cup BoundsFor(FALSE),
        e \in Traces, eta \in Etas, g \in Gammas, r \in Rewards}

Init ==
    /\ args \in {a \in Prepared :
                    /\ a.current_weight \in (IF a.is_inhibitory THEN InhWeights ELSE ExcWeights)
                    /\ a.weight_bounds \in BoundsFor(a.is_inhibitory)}
    /\ ret = NoRet
    /\ pc = "idle"
    /\ calls = 0
    /\ rng = 0
    /\ figures = 0
    /\ heap = <<>>

Invoke(a) ==
    LET r == apply_stdp(a)
    IN  /\ args' = a
        /\ ret' = r
        /\ pc' = IF r.raised = "none" THEN "returned" ELSE "raised"
        /\ calls' = calls + 1
        /\ UNCHANGED <<rng, figures, heap>>

\* one call with well-typed arguments
Call ==
    /\ pc = "idle"
    /\ \E p \in Trains, q \in Trains :
          Invoke([args EXCEPT !.spike_times_pre = p, !.spike_times_post = q])

\* the ways a caller gets an argument wrong
Defects ==
    {"pre_not_array", "post_not_array", "weight_not_number", "bounds_not_pair",
     "tau_plus_zero", "tau_minus_negative", "polarity_flipped",
     "gamma_above_one", "gamma_negative", "bounds_reversed"}

TypeDefects == {"pre_not_array", "post_not_array", "weight_not_number", "bounds_not_pair"}

Defective(a, D) ==
    [a EXCEPT
       !.pre_is_array = "pre_not_array" \notin D,
       !.post_is_array = "post_not_array" \notin D,
       !.weight_is_number = "weight_not_number" \notin D,
       !.bounds_is_pair = "bounds_not_pair" \notin D,
       !.tau_plus = IF "tau_plus_zero" \in D THEN 0 ELSE @,
       !.tau_minus = IF "tau_minus_negative" \in D THEN -tau_default ELSE @,
       !.is_inhibitory = IF "polarity_flipped" \in D THEN ~@ ELSE @,
       !.gamma = IF "gamma_above_one" \in D THEN <<3, 2>>
                 ELSE IF "gamma_negative" \in D THEN <<-1, 2>> ELSE @,
       !.weight_bounds = IF "bounds_reversed" \in D
                         THEN (IF a.is_inhibitory THEN <<-Num(3, 10), -Num(5, 10)>>
                               ELSE <<Num(5, 10), Num(3, 10)>>)
                         ELSE @]

\* one call in which one or two arguments are wrong
CallDefect ==
    /\ pc = "idle"
    /\ \E D \in SUBSET Defects :
          /\ Cardinality(D) \in {1, 2}
          /\ Invoke(Defective([args EXCEPT !.spike_times_pre = <<0, TimeStep>>,
                                           !.spike_times_post = <<TimeStep, 2 * TimeStep>>], D))

\* the spike patterns of a caller's loop: at most one spike per train
IterTrains == {t \in Trains : Len(t) <= 1 /\ \A i \in 1..Len(t) : t[i] <= TimeStep}

\* a later call of a loop that feeds the returned weight and trace back in,
\* every other argument kept (examples.py, example_4_eligibility_trace)
Step ==
    /\ pc = "returned"
    /\ calls < MaxCalls
    /\ args.spike_times_pre \in IterTrains
    /\ args.spike_times_post \in IterTrains
    /\ args.reward = <<1, 1>>
    /\ \E p \in IterTrains, q \in IterTrains :
          Invoke([args EXCEPT !.spike_times_pre = p, !.spike_times_post = q,
                              !.current_weight = ret.new_weight,
                              !.eligibility_trace = ret.new_eligibility_trace])

Next == Call \/ CallDefect \/ Step

Spec == Init /\ [][Next]_vars

\* ------------------------------------------------------------ properties
Returned == pc = "returned"

lo == weight_bounds_of(args)[1]

hi == weight_bounds_of(args)[2]

\* the stated pairwise rule: + Aafter * exp(-dt/tauafter) for each pair with
\* dt = t_post - t_pre > 0, - Abefore * exp(dt/taubefore) for each with dt < 0
MassAfter(a, A, tau) ==
    SumSeq([k \in 1..NPairs(a.spike_times_pre, a.spike_times_post) |->
        IF PairDt(a.spike_times_pre, a.spike_times_post, k) > 0
        THEN Kernel(A, PairDt(a.spike_times_pre, a.spike_times_post, k), tau) ELSE 0])

MassBefore(a, A, tau) ==
    SumSeq([k \in 1..NPairs(a.spike_times_pre, a.spike_times_post) |->
        IF PairDt(a.spike_times_pre, a.spike_times_post, k) < 0
        THEN Kernel(A, -PairDt(a.spike_times_pre, a.spike_times_post, k), tau) ELSE 0])

\* the pattern is dominated by pairs in which the post spike follows the pre
\* spike (resp. precedes it), each pair weighed by the kernel that applies to it
PostAfterPre(a) ==
    IF a.is_inhibitory
    THEN MassAfter(a, A_minus_base, a.tau_minus) > MassBefore(a, A_plus_base, a.tau_plus)
    ELSE MassAfter(a, A_plus_of(a), a.tau_plus) > MassBefore(a, A_minus_base, a.tau_minus)

PostBeforePre(a) ==
    IF a.is_inhibitory
    THEN MassAfter(a, A_minus_base, a.tau_minus) < MassBefore(a, A_plus_base, a.tau_plus)
    ELSE MassAfter(a, A_plus_of(a), a.tau_plus) < MassBefore(a, A_minus_base, a.tau_minus)

\* C1: every returned weight lies within the weight bounds of its call, in a
\* single call and in every call of a chain that feeds the weight back in.
C1_WeightWithinBounds ==
    Returned => (lo <= ret.new_weight /\ ret.new_weight <= hi)

\* C1 witness: a later call of a chain whose unclipped weight would have left
\* the bounds and which returned the upper bound instead.
C1_Witness ==
    /\ Returned
    /\ calls >= 2
    /\ args.current_weight + scaled_delta_w(args, ret.delta_w) > hi
    /\ ret.new_weight = hi

\* C2 as stated: excitatory synapse, potentiation-dominant pattern: the
\* returned weight is strictly greater than the current weight, at most the
\* upper bound, and the returned trace is positive when the incoming one is 0.
C2_Original ==
    (Returned /\ ~args.is_inhibitory /\ PostAfterPre(args)) =>
        /\ ret.new_weight > args.current_weight
        /\ ret.new_weight <= hi
        /\ (args.eligibility_trace = 0 => ret.new_eligibility_trace > 0)

\* C2 amended: the same, the strict increase being claimed only of a current
\* weight below the upper bound (a weight at or above it comes back clipped).
C2_PotentiationIncreases ==
    (Returned /\ ~args.is_inhibitory /\ PostAfterPre(args)) =>
        /\ (args.current_weight < hi => ret.new_weight > args.current_weight)
        /\ ret.new_weight <= hi
        /\ (args.eligibility_trace = 0 => ret.new_eligibility_trace > 0)

\* C2 witness: a pattern with pairs of both signs in which potentiation
\* dominates, on a weight below the bound, which grew.
C2_Witness ==
    /\ Returned /\ ~args.is_inhibitory /\ PostAfterPre(args)
    /\ has_depression(args)
    /\ args.eligibility_trace = 0
    /\ args.current_weight < hi
    /\ ret.new_weight > args.current_weight
    /\ ret.new_eligibility_trace > 0

\* C3: excitatory synapse, depression-dominant pattern, full reward, current
\* weight above the lower bound and not above the upper one (the cases in which
\* a strict decrease is possible): the returned weight is strictly
\* less than the current weight, not below the lower bound, and the returned
\* trace is negative when the incoming one is 0.
C3_DepressionDecreases ==
    (/\ Returned /\ ~args.is_inhibitory /\ PostBeforePre(args)
     /\ args.reward = <<1, 1>>
     /\ lo < args.current_weight /\ args.current_weight <= hi) =>
        /\ ret.new_weight < args.current_weight
        /\ ret.new_weight >= lo
        /\ (args.eligibility_trace = 0 => ret.new_eligibility_trace < 0)

\* C4 as stated: inhibitory synapse, default bounds: post-before-pre makes the
\* weight strictly more negative and the trace negative, pre-before-post makes
\* it strictly less negative and the trace positive; the weight stays in [-1, 0].
C4_Original ==
    (Returned /\ args.is_inhibitory /\ Len(args.weight_bounds) = 0) =>
        /\ PostBeforePre(args) =>
             (ret.new_weight < args.current_weight /\ ret.new_eligibility_trace < 0)
        /\ PostAfterPre(args) =>
             (ret.new_weight > args.current_weight /\ ret.new_eligibility_trace > 0)
        /\ -UNIT <= ret.new_weight /\ ret.new_weight <= 0

\* C4 amended: the strict change is claimed only of a weight not already at
\* the bound it moves towards, and the sign of the trace only when the
\* incoming trace does not have the opposite sign.
C4_InhibitoryDirections ==
    (Returned /\ args.is_inhibitory /\ Len(args.weight_bounds) = 0) =>
        /\ PostBeforePre(args) =>
             /\ (args.current_weight > -UNIT => ret.new_weight < args.current_weight)
             /\ (args.eligibility_trace <= 0 => ret.new_eligibility_trace < 0)
        /\ PostAfterPre(args) =>
             /\ (args.current_weight < 0 => ret.new_weight > args.current_weight)
             /\ (args.eligibility_trace >= 0 => ret.new_eligibility_trace > 0)
        /\ -UNIT <= ret.new_weight /\ ret.new_weight <= 0

\* C4 witness: an inhibitory weight inside (-1, 0) made more negative by a
\* post-before-pre pattern that also holds a pre-before-post pair.
C4_Witness ==
    /\ Returned /\ args.is_inhibitory /\ Len(args.weight_bounds) = 0
    /\ PostBeforePre(args)
    /\ MassAfter(args, A_minus_base, args.tau_minus) > 0
    /\ args.current_weight > -UNIT
    /\ ret.new_weight < args.current_weight
    /\ ret.new_eligibility_trace < 0

C6_Original ==
    (Returned /\ args.spike_times_pre = <<>> /\ args.spike_times_post = <<>>) =>
        /\ ret.new_weight = args.current_weight
        /\ ret.new_eligibility_trace = Scale(args.gamma, args.eligibility_trace)

\* C6 amended: the weight is returned unchanged when it lies within the weight
\* bounds (a weight outside them comes back clipped); the trace is
\* gamma * (incoming trace) in every case, in each call of a chain.
C6_EmptyTrains ==
    (Returned /\ args.spike_times_pre = <<>> /\ args.spike_times_post = <<>>) =>
        /\ (lo <= args.current_weight /\ args.current_weight <= hi)
              => ret.new_weight = args.current_weight
        /\ ret.new_eligibility_trace = Scale(args.gamma, args.eligibility_trace)

\* C6 witness: a later call of a chain, with no spikes, that halved a nonzero
\* trace and left the weight alone.
C6_Witness ==
    /\ Returned /\ args.spike_times_pre = <<>> /\ args.spike_times_post = <<>>
    /\ calls >= 2
    /\ args.gamma = <<1, 2>>
    /\ args.eligibility_trace # 0
    /\ 2 * ret.new_eligibility_trace = args.eligibility_trace
    /\ ret.new_weight = args.current_weight

Doubled(e) == <<2 * e[1], e[2]>>

Halved(e) == <<e[1], 2 * e[2]>>

\* the weight change of the call a with learning rate e
ChangeWithEta(a, e) == apply_stdp([a EXCEPT !.eta = e]).new_weight - a.current_weight

\* C7 as stated, for a current weight within the bounds: the weight change
\* with eta doubled is twice, and with eta halved is half, the weight change
\* of the call.
C7_Original ==
    (Returned /\ lo <= args.current_weight /\ args.current_weight <= hi) =>
        /\ ChangeWithEta(args, Doubled(args.eta)) = 2 * (ret.new_weight - args.current_weight)
        /\ 2 * ChangeWithEta(args, Halved(args.eta)) = ret.new_weight - args.current_weight

\* no clipping with any of the three learning rates: the current weight and
\* the weight reached with the doubled rate both lie within the bounds
Unclipped ==
    /\ lo <= args.current_weight /\ args.current_weight <= hi
    /\ lo <= args.current_weight + Scale(Doubled(args.eta), ret.delta_w)
    /\ args.current_weight + Scale(Doubled(args.eta), ret.delta_w) <= hi

\* C7 amended: the same, for calls in which no result is clipped at a bound.
C7_LinearInEta ==
    (Returned /\ Unclipped) =>
        /\ ChangeWithEta(args, Doubled(args.eta)) = 2 * (ret.new_weight - args.current_weight)
        /\ 2 * ChangeWithEta(args, Halved(args.eta)) = ret.new_weight - args.current_weight

\* C7 witness: an unclipped call with eta = 2 whose weight changed.
C7_Witness ==
    /\ Returned /\ Unclipped
    /\ args.eta = <<2, 1>>
    /\ ret.new_weight # args.current_weight

\* the raw summed pairwise delta of the stated rule
RawDelta(a) ==
    IF a.is_inhibitory
    THEN MassAfter(a, A_minus_base, a.tau_minus) - MassBefore(a, A_plus_base, a.tau_plus)
    ELSE MassAfter(a, A_plus_of(a), a.tau_plus) - MassBefore(a, A_minus_base, a.tau_minus)

\* C8: the returned trace is gamma * (incoming trace) + the raw summed delta;
\* stated for the calls in which the excitatory special cases of C9 cannot
\* apply (inhibitory, or full reward and a weight of at least 0.3).
C8_TraceUpdate ==
    (/\ Returned
     /\ args.is_inhibitory \/ (args.reward = <<1, 1>> /\ args.current_weight >= LowWeight)) =>
        ret.new_eligibility_trace
            = Scale(args.gamma, args.eligibility_trace) + RawDelta(args)

\* C9: on an excitatory synapse (full reward) the delta the call works with is
\* exactly the raw summed pairwise delta, whatever the current weight.
C9_RawDelta ==
    (Returned /\ ~args.is_inhibitory /\ args.reward = <<1, 1>>) =>
        ret.delta_w = RawDelta(args)

HasTypeDefect(a) ==
    ~a.pre_is_array \/ ~a.post_is_array \/ ~a.weight_is_number \/ ~a.bounds_is_pair

HasValueDefect(a) ==
    \/ a.tau_plus <= 0 \/ a.tau_minus <= 0
    \/ (a.is_inhibitory /\ a.current_weight > 0)
    \/ (~a.is_inhibitory /\ a.current_weight < 0)
    \/ FracLess(<<1, 1>>, a.gamma) \/ FracLess(a.gamma, <<0, 1>>)
    \/ (Len(a.weight_bounds) = 2 /\ a.weight_bounds[1] > a.weight_bounds[2])

\* C10: a call with an ill-typed argument raises TypeError, a call with
\* well-typed arguments one of which has an invalid value raises ValueError,
\* and a call that raises returns no weight and no trace and computed no delta.
C10_Rejects ==
    (pc # "idle") =>
        /\ HasTypeDefect(args) => (pc = "raised" /\ ret.raised = "TypeError")
        /\ (~HasTypeDefect(args) /\ HasValueDefect(args))
              => (pc = "raised" /\ ret.raised = "ValueError")
        /\ pc = "raised" =>
              (ret.delta_w = 0 /\ ret.new_weight = 0 /\ ret.new_eligibility_trace = 0)

\* C10 witness: a call rejected with ValueError for gamma = 1.5 alone.
C10_Witness ==
    /\ pc = "raised" /\ ret.raised = "ValueError"
    /\ args.gamma = <<3, 2>>
    /\ args.tau_plus > 0 /\ args.tau_minus > 0
    /\ (args.is_inhibitory => args.current_weight <= 0)
    /\ (~args.is_inhibitory => args.current_weight >= 0)
    /\ Len(args.weight_bounds) = 0

\* the orderings of the elements of a spike train
Orderings(s) ==
    {[i \in 1..Len(s) |-> s[f[i]]] :
        f \in {g \in [1..Len(s) -> 1..Len(s)] :
                 \A i, j \in 1..Len(s) : g[i] = g[j] => i = j}}

\* C11: a call with the elements of spike_times_pre and of spike_times_post
\* in any other order, every other argument kept, returns the same weight and
\* the same eligibility trace.
C11_OrderIrrelevant ==
    Returned =>
        \A p \in Orderings(args.spike_times_pre), q \in Orderings(args.spike_times_post) :
            LET r == apply_stdp([args EXCEPT !.spike_times_pre = p, !.spike_times_post = q])
            IN  /\ r.new_weight = ret.new_weight
                /\ r.new_eligibility_trace = ret.new_eligibility_trace

(***************************************************************************)
(* The library's other public functions.  A caller makes up to MaxCalls    *)
(* calls, of any of them, in one process: the calls share numpy's global   *)
(* random generator and matplotlib's figure registry.  args.fn names the   *)
(* function of the last call; ret is [raised, value, ref], ref being the   *)
(* object id of a returned array (0: none).  Array elements and scalars    *)
(* are integers in the unit natural to each function.                      *)
(***************************************************************************)
MaxLen == 2         \* longest input array
MaxDuration == 5    \* longest spike-train duration, in ms
RngStates == 4      \* positions of the random generator's cycle

Arrays(S, n) == UNION {[1..m -> S] : m \in 0..n}

\* what a call gives: the exception raised ("none" when it returned), the
\* returned object as a record named by its kind, and the object's id
LibRet(raised, value, ref) == [raised |-> raised, value |-> value, ref |-> ref]

\* ------------------------------------------------ numpy's global generator
\* the position reached after n draws from position s
advance(s, n) == (s + n) % RngStates

\* np.random.rand: the uniform draw in [0, 1) made at position s
np_random_rand(s) == <<(3 * s) % 4, 4>>

\* the standard normal draw made at position s
standard_normal(s) == ((2 * s) % 3) - 1

\* ------------------------------------------------------------ ndarray
ndarray_copy_aliasing(h, ref) == [heap |-> h, ref |-> ref]

\* ndarray.copy(): a new object holding the same elements
ndarray_copy(h, ref) == [heap |-> Append(h, h[ref]), ref |-> Len(h) + 1]

\* ---------------------------------------------------------- apply_mutation
mutation_mask_inclusive(n, s, mutation_rate) ==
    [i \in 1..n |-> ~FracLess(mutation_rate, np_random_rand(advance(s, i - 1)))]

\* mutation_mask = np.random.rand(*weights.shape) < mutation_rate
mutation_mask(n, s, mutation_rate) ==
    [i \in 1..n |-> FracLess(np_random_rand(advance(s, i - 1)), mutation_rate)]

\* mutations = np.random.normal(0, mutation_scale, weights.shape)
mutation_noise(n, s, mutation_scale) ==
    [i \in 1..n |-> mutation_scale * standard_normal(advance(s, i - 1))]

\* the call with arguments a, the generator at position s and the heap h
apply_mutation(a, s, h) ==
    IF ~a.weights_is_array
    THEN [ret |-> LibRet("AttributeError", <<>>, 0), rng |-> s, heap |-> h]
    ELSE
    LET n == Len(h[a.weights_ref])
        mask == mutation_mask(n, s, a.mutation_rate)
        s1 == advance(s, n)
    IN  IF a.mutation_scale < 0
        THEN [ret |-> LibRet("ValueError", <<>>, 0), rng |-> s1, heap |-> h]
        ELSE
        LET mutations == mutation_noise(n, s1, a.mutation_scale)
            c == ndarray_copy(h, a.weights_ref)
            mutated_weights ==
                [i \in 1..n |-> IF mask[i] THEN c.heap[c.ref][i] + mutations[i]
                                ELSE c.heap[c.ref][i]]
            h2 == [c.heap EXCEPT ![c.ref] = mutated_weights]
        IN  \* the in-place += of float noise into an integer array is refused
            IF a.weights_dtype = "int64"
            THEN [ret |-> LibRet("TypeError", <<>>, 0),
                  rng |-> advance(s1, n), heap |-> c.heap]
            ELSE [ret |-> LibRet("none", [ndarray |-> h2[c.ref]], c.ref),
                  rng |-> advance(s1, n), heap |-> h2]

\* -------------------------------------------- generate_fractal_spike_train
\* int(x / y) for y # 0: the quotient truncated towards zero
int_of_quotient(x, y) ==
    IF (x >= 0) = (y > 0) THEN Abs(x) \div Abs(y) ELSE -(Abs(x) \div Abs(y))

\* len(np.arange(0, stop, step)) for step # 0
arange_len(stop, step) ==
    IF (stop > 0) = (step > 0) /\ stop # 0
    THEN (Abs(stop) + Abs(step) - 1) \div Abs(step) ELSE 0

\* spike_rate * dt / 1000.0 at time t, in millionths; nan where
\* -t / tau_f is 0 / 0
spike_probability(a, t) ==
    IF a.tau_f = 0
    THEN [nan |-> t = 0, millionths |-> 0]
    ELSE [nan |-> FALSE,
          millionths |-> a.k * a.fractal_dimension * np_exp_neg(t, a.tau_f) * a.dt]

\* element i of np.random.rand(n_steps) < spike_rate * dt / 1000.0, the two
\* operands broadcast against each other
spike_at(a, s, n_steps, m, i) ==
    LET u == np_random_rand(advance(s, (IF n_steps = 1 THEN 1 ELSE i) - 1))
        p == spike_probability(a, ((IF m = 1 THEN 1 ELSE i) - 1) * a.dt)
    IN  ~p.nan /\ u[1] * 1000000 < u[2] * p.millionths

generate_fractal_spike_train(a, s) ==
    IF a.dt = 0
    THEN [ret |-> LibRet("ZeroDivisionError", <<>>, 0), rng |-> s]
    ELSE
    LET n_steps == int_of_quotient(a.duration, a.dt)
        m == arange_len(a.duration, a.dt)
    IN  IF n_steps < 0
        THEN [ret |-> LibRet("ValueError", <<>>, 0), rng |-> s]
        ELSE IF n_steps # m /\ n_steps # 1 /\ m # 1
        THEN [ret |-> LibRet("ValueError", <<>>, 0), rng |-> advance(s, n_steps)]
        ELSE
        LET len == IF n_steps = 1 THEN m ELSE IF m = 1 THEN n_steps ELSE m
            where == SelectSeq([i \in 1..len |-> i],
                               LAMBDA i : spike_at(a, s, n_steps, m, i))
        IN  [ret |-> LibRet("none", [ndarray |-> [j \in 1..Len(where) |-> (where[j] - 1) * a.dt]], 1),
             rng |-> advance(s, n_steps)]

\* ------------------------------------------------------ dynamical systems
\* 1.0 in units of the default step epsilon = 1e-6: points, system values and
\* epsilon are integer counts of that unit
ONE == 1000000

\* planar systems: 2 x 2 matrices with entries in S, as rows
Matrices(S) == [1..2 -> [1..2 -> S]]

\* func(y) for the system dy/dt = A.y + b
func(sys, y) ==
    [j \in 1..2 |-> sys.A[j][1] * y[1] + sys.A[j][2] * y[2] + sys.b[j]]

\* what an array of the given dtype stores when x is assigned to an element:
\* an integer array keeps the integer part, truncated towards zero
stored(dtype, x) ==
    IF dtype = "int64"
    THEN (IF x >= 0 THEN (x \div ONE) * ONE ELSE -(((-x) \div ONE) * ONE))
    ELSE x

\* one pass of the loop: p_plus = point.copy(); p_plus[i] += epsilon;
\* f_plus = func(p_plus); the column (f_plus - f0) / epsilon as fractions
jacobian_column(a, h, f0, i) ==
    LET c == ndarray_copy(h, a.point_ref)
        p_plus == [c.heap[c.ref] EXCEPT ![i] = stored(a.point_dtype, @ + a.epsilon)]
        f_plus == func(a.func, p_plus)
    IN  [heap |-> [c.heap EXCEPT ![c.ref] = p_plus],
         column |-> [j \in 1..2 |-> <<f_plus[j] - f0[j], a.epsilon>>]]

\* the call: jacobian[j][i] is a fraction <<numerator, denominator>>, the
\* denominator 0 standing for the nan of 0 / 0
calculate_jacobian(a, h) ==
    LET f0 == func(a.func, h[a.point_ref])
        c1 == jacobian_column(a, h, f0, 1)
        c2 == jacobian_column(a, c1.heap, f0, 2)
        jacobian == [j \in 1..2 |-> <<c1.column[j], c2.column[j]>>]
    IN  [ret |-> LibRet("none", [jacobian |-> jacobian], Len(c2.heap) + 1),
         heap |-> Append(c2.heap, jacobian)]

Sign(x) == IF x < 0 THEN -1 ELSE IF x > 0 THEN 1 ELSE 0

\* np.linalg.eigvals of a 2 x 2 matrix, each eigenvalue given by the signs of
\* its real and imaginary parts: the roots of x^2 - tr x + det, that is
\* (tr +- sqrt(disc)) / 2 with disc = tr^2 - 4 det
eigvals(M) ==
    LET tr == M[1][1] + M[2][2]
        det == M[1][1] * M[2][2] - M[1][2] * M[2][1]
        disc == tr * tr - 4 * det
    IN  IF disc < 0
        THEN <<[re |-> Sign(tr), im |-> 1], [re |-> Sign(tr), im |-> -1]>>
        ELSE <<[re |-> IF tr > 0 THEN 1
                       ELSE IF tr = 0 THEN Sign(disc) ELSE -Sign(det),
                im |-> 0],
               [re |-> IF tr < 0 THEN -1
                       ELSE IF tr = 0 THEN -Sign(disc) ELSE Sign(det),
                im |-> 0]>>

\* the classification with the boundary real part 0 counted on both sides
stability_type_of_nonstrict(eigenvalues) ==
    LET real_parts == {eigenvalues[i].re : i \in DOMAIN eigenvalues}
        imag_parts == {eigenvalues[i].im : i \in DOMAIN eigenvalues}
    IN  IF \A r \in real_parts : r <= 0
        THEN (IF \A m \in imag_parts : m = 0 THEN "Stable Node" ELSE "Stable Spiral")
        ELSE IF \A r \in real_parts : r >= 0
        THEN (IF \A m \in imag_parts : m = 0 THEN "Unstable Node" ELSE "Unstable Spiral")
        ELSE "Saddle Point"

\* lines 27-40 of analyze_stability.py
stability_type_of(eigenvalues) ==
    LET real_parts == {eigenvalues[i].re : i \in DOMAIN eigenvalues}
        imag_parts == {eigenvalues[i].im : i \in DOMAIN eigenvalues}
    IN  IF \A r \in real_parts : r < 0
        THEN (IF \A m \in imag_parts : m = 0 THEN "Stable Node" ELSE "Stable Spiral")
        ELSE IF \A r \in real_parts : r > 0
        THEN (IF \A m \in imag_parts : m = 0 THEN "Unstable Node" ELSE "Unstable Spiral")
        ELSE IF (\E r \in real_parts : r > 0) /\ (\E r \in real_parts : r < 0)
        THEN "Saddle Point"
        ELSE "Center (Marginally Stable)"

analyze_stability(a) ==
    LET eigenvalues == eigvals(a.jacobian)
    IN  LibRet("none", [eigenvalues |-> eigenvalues,
                        stability_type |-> stability_type_of(eigenvalues)], 0)

\* the system has a point where func vanishes: A is diagonal here, so each
\* coordinate is solved on its own
Solvable(sys) == \A j \in 1..2 : sys.A[j][j] # 0 \/ sys.b[j] = 0

\* scipy's fsolve(func, guess, full_output=True): the point it ends at and
\* its flag ier (1: converged).  From a guess where func vanishes it stays;
\* on a regular linear system it reaches the root; where func has no zero
\* it gives up at some point, stall
fsolve(sys, guess, stall) ==
    IF func(sys, guess) = <<0, 0>> THEN [x |-> guess, ier |-> 1]
    ELSE IF Solvable(sys)
    THEN [x |-> [j \in 1..2 |-> IF sys.A[j][j] = 0 THEN guess[j]
                                ELSE (-Sign(sys.A[j][j]) * sys.b[j]) \div Abs(sys.A[j][j])],
          ier |-> 1]
    ELSE [x |-> stall, ier |-> 5]

\* the call: one row per initial guess, whatever the solver's flag
find_fixed_points(a, stall) ==
    LET found == [g \in 1..Len(a.initial_guesses) |->
                     fsolve(a.func, a.initial_guesses[g], stall[g])]
    IN  LibRet("none", [fixed_points |-> [g \in 1..Len(found) |-> found[g].x]], 1)

\* ------------------------------------------------------ caputo_derivative
\* alpha is a count of halves.  The Grunwald-Letnikov coefficient
\* gamma(k - alpha) / (gamma(-alpha) * gamma(k + 1)) times 2^k k!, by its
\* recurrence c_k = c_(k-1) (k - 1 - alpha) / k
RECURSIVE gl_coeff_scaled(_, _)
gl_coeff_scaled(alpha2, k) ==
    IF k = 0 THEN 1 ELSE gl_coeff_scaled(alpha2, k - 1) * (2 * (k - 1) - alpha2)

RECURSIVE Factorial(_)
Factorial(k) == IF k = 0 THEN 1 ELSE k * Factorial(k - 1)

RECURSIVE Pow2(_)
Pow2(k) == IF k = 0 THEN 1 ELSE 2 * Pow2(k - 1)

\* scipy's gamma is infinite at 0, -1, -2, ...: the coefficient is then
\* inf / inf, a nan, when -alpha or k - alpha is such a pole
gl_coeff_is_nan(alpha2, k) ==
    alpha2 >= 0 /\ alpha2 % 2 = 0 /\ 2 * k <= alpha2

\* the call; result[i] is [nan, inf, scaled], scaled being the finite value
\* times 2^(n-1) (n-1)!
caputo_derivative(a) ==
    LET n == Len(a.f)
        D == Pow2(n - 1) * Factorial(n - 1)
        summation(i) ==
            SumSeq([k1 \in 1..i |->
                gl_coeff_scaled(a.alpha, k1 - 1) * (D \div (Pow2(k1 - 1) * Factorial(k1 - 1)))
                    * a.f[i - k1 + 1]])
        nan(i) == \E k1 \in 1..i : gl_coeff_is_nan(a.alpha, k1 - 1)
    IN  IF a.dt = 0 /\ a.alpha < 0 /\ n > 0
        THEN LibRet("ZeroDivisionError", <<>>, 0)
        ELSE LibRet("none",
                 [derivative |-> [i \in 1..n |->
                    IF a.dt = 0 /\ a.alpha > 0
                    THEN [nan |-> nan(i) \/ summation(i) = 0,
                          inf |-> ~nan(i) /\ summation(i) # 0, scaled |-> 0]
                    ELSE [nan |-> nan(i), inf |-> FALSE,
                          scaled |-> IF nan(i) THEN 0 ELSE summation(i)]]],
                 1)

\* ------------------------------------------------ plot_eigenvalue_spectrum
\* closed: whether plt.show() ended with the window closed, which releases
\* the figure; plt.savefig never does
plot_eigenvalue_spectrum(a, open, closed) ==
    IF ~a.matrix_is_array \/ a.matrix_ndim # 2
    THEN [ret |-> LibRet("TypeError", <<>>, 0), figures |-> open]
    ELSE IF a.matrix_shape[1] # a.matrix_shape[2]
    THEN [ret |-> LibRet("LinAlgError", <<>>, 0), figures |-> open]
    ELSE IF a.save_path # ""
    THEN [ret |-> LibRet("none", <<>>, 0), figures |-> open + 1]
    ELSE [ret |-> LibRet("none", <<>>, 0),
          figures |-> IF closed THEN open ELSE open + 1]

\* -------------------------------------------- compute_persistent_homology
\* value: how ripser was called
compute_persistent_homology(a) ==
    IF ~a.points_is_array \/ a.points_ndim # 2
    THEN LibRet("TypeError", <<>>, 0)
    ELSE IF a.max_dim_type # "int" \/ a.max_dim < 0
    THEN LibRet("ValueError", <<>>, 0)
    ELSE LibRet("none",
                [maxdim |-> a.max_dim,
                 distance_matrix |-> a.points_shape[1] = a.points_shape[2]],
                0)

\* ---------------------------------------------- calculate_semantic_coverage
\* embeddings are integer vectors of the plane
dot(u, v) == u[1] * v[1] + u[2] * v[2]

\* the Euclidean norm, an integer for the embeddings used
norm(v) == CHOOSE n \in 0..(Abs(v[1]) + Abs(v[2])) : n * n = dot(v, v)

\* sklearn normalises each row by its norm, a zero row by 1
cosine_similarity(X, Y) ==
    [i \in 1..Len(X) |-> [j \in 1..Len(Y) |->
        dot(X[i], Y[j]) \div (Max(norm(X[i]), 1) * Max(norm(Y[j]), 1))]]

RECURSIVE np_max(_)
np_max(row) ==
    IF Len(row) = 1 THEN row[1] ELSE Max(row[1], np_max(Tail(row)))

\* the call: coverage is the fraction <<sum, count>> of np.mean
calculate_semantic_coverage(a) ==
    IF Len(a.input_embeddings) = 0 \/ Len(a.primitive_set) = 0
    THEN LibRet("ValueError", <<>>, 0)
    ELSE
    LET similarity_matrix == cosine_similarity(a.input_embeddings, a.primitive_set)
        max_similarities ==
            [i \in 1..Len(similarity_matrix) |-> np_max(similarity_matrix[i])]
    IN  LibRet("none",
               [coverage |-> <<SumSeq(max_similarities), Len(max_similarities)>>], 0)

\* ---------------------------------------------------- linear_system_solver
\* A is a list of rows, b a list; a.defect tells what else the caller's data
\* hold: "A_none" and "b_none" (None passed), "non_numeric" (strings),
\* "A_nan" (a NaN entry), "b_inf" (an infinite entry), or "none"
solver_validate(a) ==
    IF a.defect \in {"A_none", "b_none"} THEN <<"ValueError", "cannot be None">>
    ELSE IF a.defect = "non_numeric" THEN <<"TypeError", "must be numeric">>
    ELSE IF Len(a.A) = 0 \/ Len(a.b) = 0 THEN <<"ValueError", "Empty arrays">>
    ELSE IF a.defect \in {"A_nan", "b_inf"} THEN <<"ValueError", "NaN or infinity">>
    ELSE IF \E i \in 1..Len(a.A) : Len(a.A[i]) # Len(a.A)
    THEN <<"ValueError", "must be square">>
    ELSE IF Len(a.b) # Len(a.A) THEN <<"ValueError", "Incompatible shapes">>
    ELSE <<"none", "">>

\* the determinant of a 1 x 1 or 2 x 2 matrix
np_linalg_det(M) ==
    IF Len(M) = 1 THEN M[1][1] ELSE M[1][1] * M[2][2] - M[1][2] * M[2][1]

\* Cramer's rule with the columns of the second numerator exchanged
np_linalg_solve_swapped(M, b) ==
    IF Len(M) = 1 THEN << <<b[1], np_linalg_det(M)>> >>
    ELSE << <<b[1] * M[2][2] - M[1][2] * b[2], np_linalg_det(M)>>,
            <<b[1] * M[2][1] - M[1][1] * b[2], np_linalg_det(M)>> >>

\* np.linalg.solve by Cramer's rule: x[i] is the fraction <<numerator, det>>
np_linalg_solve(M, b) ==
    IF Len(M) = 1 THEN << <<b[1], np_linalg_det(M)>> >>
    ELSE << <<b[1] * M[2][2] - M[1][2] * b[2], np_linalg_det(M)>>,
            <<M[1][1] * b[2] - b[1] * M[2][1], np_linalg_det(M)>> >>

linear_system_solver(a) ==
    LET v == solver_validate(a)
    IN  IF v[1] # "none" THEN LibRet(v[1], [message |-> v[2]], 0)
        ELSE IF np_linalg_det(a.A) = 0
        THEN LibRet("LinAlgError", [message |-> "Singular matrix"], 0)
        ELSE LibRet("none", [x |-> np_linalg_solve(a.A, a.b)], 1)

\* ---------------------------------------------- calculate_descriptive_stats
\* np.nan among the data, which are positive numbers otherwise
NaN == 0 - 1

\* a statistic is a fraction <<numerator, denominator>>, <<0, 0>> being nan
np_nan == <<0, 0>>

isnan(q) == q[2] = 0

RECURSIVE np_min(_)
np_min(s) ==
    IF Len(s) = 1 THEN s[1]
    ELSE IF s[1] <= np_min(Tail(s)) THEN s[1] ELSE np_min(Tail(s))

\* np.sqrt of a fraction to two decimals: <<hundredths, 100>>
np_sqrt(q) ==
    IF isnan(q) THEN np_nan
    ELSE LET v == (q[1] * 10000) \div q[2]
         IN  <<CHOOSE r \in 0..(v + 1) : r * r <= v /\ v < (r + 1) * (r + 1), 100>>

\* the moments of the numbers x about their mean, as sums of powers of the
\* deviations n x[i] - sum(x)
moments(x) ==
    LET n == Len(x)
        d == [i \in 1..n |-> n * x[i] - SumSeq(x)]
    IN  [S2 |-> SumSeq([i \in 1..n |-> d[i] * d[i]]),
         S3 |-> SumSeq([i \in 1..n |-> d[i] * d[i] * d[i]]),
         S4 |-> SumSeq([i \in 1..n |-> d[i] * d[i] * d[i] * d[i]])]

\* the sample variance (ddof = 1), 0 for a single value
variance(x) ==
    IF Len(x) = 1 THEN <<0, 1>>
    ELSE <<moments(x).S2, Len(x) * Len(x) * (Len(x) - 1)>>

\* m3 / m2^1.5, 0 for constant data
skewness(x) ==
    LET m == moments(x)
        magnitude == np_sqrt(<<Len(x) * m.S3 * m.S3, m.S2 * m.S2 * m.S2>>)
    IN  IF m.S2 = 0 THEN <<0, 1>> ELSE <<Sign(m.S3) * magnitude[1], magnitude[2]>>

\* m4 / m2^2 - 3 whatever m2 is
kurtosis_dividing(x) ==
    LET m == moments(x)
    IN  IF m.S2 = 0 THEN np_nan
        ELSE <<Len(x) * m.S4 - 3 * m.S2 * m.S2, m.S2 * m.S2>>

\* m4 / m2^2 - 3, 0 for constant data
kurtosis(x) ==
    LET m == moments(x)
    IN  IF m.S2 = 0 THEN <<0, 1>>
        ELSE <<Len(x) * m.S4 - 3 * m.S2 * m.S2, m.S2 * m.S2>>

\* the policy "omit" forgotten: every value kept
stats_omit_keeping_nan(data, numbers) == data

\* with the policy "omit" the statistics are those of the numbers alone
stats_omit(data, numbers) == numbers

\* a.defect tells what the caller's data are otherwise: "None", "non_numeric"
\* (strings), "multidimensional" (nested lists), or "none"
calculate_descriptive_stats(a) ==
    LET numbers == SelectSeq(a.data, LAMBDA v : v # NaN)
        has_nan == Len(numbers) < Len(a.data)
        x == IF a.nan_policy = "omit" THEN stats_omit(a.data, numbers) ELSE numbers
        lost == has_nan /\ a.nan_policy = "propagate"
    IN  IF a.defect = "None" THEN LibRet("ValueError", <<>>, 0)
        ELSE IF a.defect = "non_numeric" THEN LibRet("TypeError", <<>>, 0)
        ELSE IF a.defect = "multidimensional" \/ Len(a.data) = 0
        THEN LibRet("ValueError", <<>>, 0)
        ELSE IF a.nan_policy \notin {"propagate", "omit", "raise"}
        THEN LibRet("ValueError", <<>>, 0)
        ELSE IF has_nan /\ a.nan_policy = "raise" THEN LibRet("ValueError", <<>>, 0)
        ELSE LibRet("none",
                 [count |-> Len(numbers),
                  mean |-> IF lost THEN np_nan ELSE <<SumSeq(x), Len(x)>>,
                  variance |-> IF lost THEN np_nan ELSE variance(x),
                  stdev |-> IF lost THEN np_nan ELSE np_sqrt(variance(x)),
                  min |-> np_min(numbers),
                  max |-> np_max(numbers),
                  skewness |-> IF lost THEN np_nan ELSE skewness(x),
                  kurtosis |-> IF lost THEN np_nan ELSE kurtosis(x)], 0)

\* ------------------------------------------------- the library's caller
Dtypes == {"float64", "int64"}

WeightValues == {0, 1}

MutationRates == {<<-1, 2>>, <<0, 1>>, <<1, 2>>, <<1, 1>>, <<3, 2>>}

MutationScales == {-1, 0, 1}

GridPoints == [1..2 -> {-ONE, 0, ONE}]

GuessPoints == {<<0, 0>>, <<ONE, ONE>>}

\* linear systems f(y) = A.y
LinearSystems == {[A |-> A, b |-> <<0, 0>>] : A \in Matrices({-2, -1, 0})}

\* systems A.y + b with A diagonal and regular, or A = 0
Diagonal(d1, d2) == <<(<<d1, 0>>), (<<0, d2>>)>>

SolverSystems ==
    {[A |-> A, b |-> b] :
        A \in {Diagonal(d1, d2) : d1, d2 \in {-2, -1, 1}} \cup {Diagonal(0, 0)},
        b \in [1..2 -> {0, ONE}]}

\* embeddings on the axes, the zero vector among them
Embeddings == {<<2, 0>>, <<0, 1>>, <<-1, 0>>, <<0, 0>>}

\* coefficient matrices up to 2 x 2 (square or not, the empty one included)
\* and right-hand sides up to length 3
SolverMatrices ==
    {<<>>} \cup UNION {[1..n -> [1..m -> {1, 2}]] : n, m \in 1..2}

SolverVectors == UNION {[1..n -> {0, 1}] : n \in 0..3}

SolverDefects == {"none", "A_none", "b_none", "non_numeric", "A_nan", "b_inf"}

\* data of up to MaxLen + 1 values, at least one of them a number
StatsData ==
    {<<>>} \cup {d \in Arrays({1, 2, NaN}, MaxLen + 1) : \E i \in DOMAIN d : d[i] # NaN}

NanPolicies == {"propagate", "omit", "raise", "invalid"}

StatsDefects == {"none", "None", "non_numeric", "multidimensional"}

ShapeSizes == 1..(MaxLen + 1)

LibInit ==
    /\ args = [fn |-> "none"]
    /\ ret = LibRet("none", <<>>, 0)
    /\ pc = "idle"
    /\ calls = 0
    /\ rng \in 0..(RngStates - 1)
    /\ figures = 0
    /\ heap = <<>>

\* the caller passes a and gets r back (or the exception r.raised)
Returns(a, r, s, f, h) ==
    /\ args' = a
    /\ ret' = r
    /\ pc' = IF r.raised = "none" THEN "returned" ELSE "raised"
    /\ calls' = calls + 1
    /\ rng' = s
    /\ figures' = f
    /\ heap' = h

CallMutation ==
    /\ pc = "idle"
    /\ calls < MaxCalls
    /\ \E w \in Arrays(WeightValues, MaxLen), dtype \in Dtypes, is_array \in BOOLEAN,
          rate \in MutationRates, scale \in MutationScales :
          LET a == [fn |-> "apply_mutation", weights |-> w, weights_ref |-> 1,
                    weights_dtype |-> dtype, weights_is_array |-> is_array,
                    mutation_rate |-> rate, mutation_scale |-> scale]
              r == apply_mutation(a, rng, <<w>>)
          IN  Returns(a, r.ret, r.rng, figures, r.heap)

CallFractal ==
    /\ pc = "idle"
    /\ calls < MaxCalls
    /\ \E fd \in {1, 2}, k \in {0, 100, 1000}, tau_f \in {0, 1, 2},
          duration \in 0..MaxDuration, dt \in {-1, 0, 1, 2} :
          LET a == [fn |-> "generate_fractal_spike_train", fractal_dimension |-> fd,
                    k |-> k, tau_f |-> tau_f, duration |-> duration, dt |-> dt]
              r == generate_fractal_spike_train(a, rng)
          IN  Returns(a, r.ret, r.rng, figures, <<r.ret.value>>)

CallCaputo ==
    /\ pc = "idle"
    /\ calls < MaxCalls
    /\ \E f \in Arrays(WeightValues, MaxLen), alpha \in {-1, 0, 1, 2, 3}, dt \in {0, 1} :
          LET a == [fn |-> "caputo_derivative", f |-> f, alpha |-> alpha, dt |-> dt]
              r == caputo_derivative(a)
          IN  Returns(a, r, rng, figures, <<f, r.value>>)

CallJacobian ==
    /\ pc = "idle"
    /\ calls < MaxCalls
    /\ \E sys \in LinearSystems, point \in GridPoints, dtype \in Dtypes,
          epsilon \in {0, 1} :
          LET a == [fn |-> "calculate_jacobian", func |-> sys, point |-> point,
                    point_ref |-> 1, point_dtype |-> dtype, epsilon |-> epsilon]
              r == calculate_jacobian(a, <<point>>)
          IN  Returns(a, r.ret, rng, figures, r.heap)

CallStability ==
    /\ pc = "idle"
    /\ calls < MaxCalls
    /\ \E jacobian \in Matrices({-2, -1, 0, 1}) :
          LET a == [fn |-> "analyze_stability", jacobian |-> jacobian]
          IN  Returns(a, analyze_stability(a), rng, figures, <<jacobian>>)

CallFixedPoints ==
    /\ pc = "idle"
    /\ calls < MaxCalls
    /\ \E sys \in SolverSystems, guesses \in Arrays(GuessPoints, MaxLen) :
          \E stall \in [1..Len(guesses) -> GuessPoints] :
              LET a == [fn |-> "find_fixed_points", func |-> sys,
                        initial_guesses |-> guesses]
                  r == find_fixed_points(a, stall)
              IN  Returns(a, r, rng, figures, <<r.value>>)

CallPlot ==
    /\ pc = "idle"
    /\ calls < MaxCalls
    /\ \E is_array \in BOOLEAN, ndim \in 1..3, rows \in 1..2, cols \in 1..2,
          save_path \in {"", "spectrum.png"}, closed \in BOOLEAN :
          LET a == [fn |-> "plot_eigenvalue_spectrum", matrix_is_array |-> is_array,
                    matrix_ndim |-> ndim, matrix_shape |-> <<rows, cols>>,
                    bins |-> "auto", save_path |-> save_path]
              r == plot_eigenvalue_spectrum(a, figures, closed)
          IN  Returns(a, r.ret, rng, r.figures, <<>>)

CallHomology ==
    /\ pc = "idle"
    /\ calls < MaxCalls
    /\ \E is_array \in BOOLEAN, ndim \in 1..3, n \in ShapeSizes, m \in ShapeSizes,
          holds \in {"points", "distances"}, type \in {"int", "float"},
          max_dim \in -1..1 :
          /\ holds = "distances" => n = m
          /\ LET a == [fn |-> "compute_persistent_homology",
                       points_is_array |-> is_array, points_ndim |-> ndim,
                       points_shape |-> <<n, m>>, points_holds |-> holds,
                       max_dim_type |-> type, max_dim |-> max_dim]
             IN  Returns(a, compute_persistent_homology(a), rng, figures, <<>>)

CallCoverage ==
    /\ pc = "idle"
    /\ calls < MaxCalls
    /\ \E X \in Arrays(Embeddings, MaxLen), Y \in Arrays(Embeddings, MaxLen) :
          LET a == [fn |-> "calculate_semantic_coverage",
                    input_embeddings |-> X, primitive_set |-> Y]
          IN  Returns(a, calculate_semantic_coverage(a), rng, figures, <<X, Y>>)

CallSolver ==
    /\ pc = "idle"
    /\ calls < MaxCalls
    /\ \E A \in SolverMatrices, b \in SolverVectors, defect \in SolverDefects,
          as_list \in BOOLEAN :
          /\ (defect \in {"A_nan", "non_numeric"}) => Len(A) > 0
          /\ (defect = "b_inf") => Len(b) > 0
          /\ LET a == [fn |-> "linear_system_solver", A |-> A, b |-> b,
                       defect |-> defect, as_list |-> as_list]
             IN  Returns(a, linear_system_solver(a), rng, figures, <<>>)

CallStats ==
    /\ pc = "idle"
    /\ calls < MaxCalls
    /\ \E data \in StatsData, nan_policy \in NanPolicies, defect \in StatsDefects :
          /\ (defect # "none") => (nan_policy = "propagate" /\ Len(data) > 0)
          /\ LET a == [fn |-> "calculate_descriptive_stats", data |-> data,
                       nan_policy |-> nan_policy, defect |-> defect]
             IN  Returns(a, calculate_descriptive_stats(a), rng, figures, <<>>)

\* the caller takes the result (or handles the exception) and drops the
\* arrays of the call; the process-wide state stays
Resume ==
    /\ pc # "idle"
    /\ args' = [fn |-> "none"]
    /\ ret' = LibRet("none", <<>>, 0)
    /\ pc' = "idle"
    /\ heap' = <<>>
    /\ UNCHANGED <<calls, rng, figures>>

LibNext ==
    \/ CallMutation
    \/ CallFractal
    \/ CallCaputo
    \/ CallJacobian
    \/ CallStability
    \/ CallFixedPoints
    \/ CallPlot
    \/ CallHomology
    \/ CallCoverage
    \/ CallSolver
    \/ CallStats
    \/ Resume

LibSpec == LibInit /\ [][LibNext]_vars

Called(fn) == pc # "idle" /\ args.fn = fn

Gave(fn) == pc = "returned" /\ args.fn = fn

\* what the caller sees of a call: the exception or the returned value
Outcome(r) == <<r.raised, r.value>>

\* the outcome of one more invocation with the arguments a, made with the
\* generator at position s
Repeated(a, s) ==
    IF a.fn = "apply_mutation" THEN Outcome(apply_mutation(a, s, <<a.weights>>).ret)
    ELSE IF a.fn = "generate_fractal_spike_train"
    THEN Outcome(generate_fractal_spike_train(a, s).ret)
    ELSE IF a.fn = "caputo_derivative" THEN Outcome(caputo_derivative(a))
    ELSE IF a.fn = "calculate_jacobian"
    THEN Outcome(calculate_jacobian(a, <<a.point>>).ret)
    ELSE IF a.fn = "analyze_stability" THEN Outcome(analyze_stability(a))
    ELSE IF a.fn = "compute_persistent_homology"
    THEN Outcome(compute_persistent_homology(a))
    ELSE Outcome(ret)

\* C12: an invocation with equal arguments, made right after a call that
\* returned, returns an equal result: no call leaves behind state that the
\* next one reads.
C12_Pure ==
    [][(pc = "idle" /\ pc' = "returned") =>
          Repeated(args', rng') = Outcome(ret')]_vars

\* the invalid arguments the claim names, the array argument being a float
\* array
InvalidArgument(a) ==
    \/ a.fn = "caputo_derivative" /\ (a.alpha <= 0 \/ a.alpha >= 2)
    \/ a.fn = "apply_mutation"
          /\ a.weights_is_array /\ a.weights_dtype = "float64"
          /\ \/ FracLess(a.mutation_rate, <<0, 1>>)
             \/ FracLess(<<1, 1>>, a.mutation_rate)
             \/ a.mutation_scale < 0
    \/ a.fn = "generate_fractal_spike_train" /\ (a.dt <= 0 \/ a.tau_f = 0)
    \/ a.fn = "calculate_jacobian" /\ a.epsilon = 0

\* C13: a call of caputo_derivative with alpha outside (0, 1), of
\* apply_mutation with mutation_rate outside [0, 1] or a negative
\* mutation_scale, of generate_fractal_spike_train with dt <= 0 or tau_f = 0,
\* or of calculate_jacobian with epsilon = 0 raises TypeError or ValueError.
C13_RejectsInvalid ==
    (pc # "idle" /\ InvalidArgument(args)) =>
        (pc = "raised" /\ ret.raised \in {"TypeError", "ValueError"})

\* C14: a call of plot_eigenvalue_spectrum leaves no figure open: the number
\* of open figures after the call is the number before it.  Stated for the
\* calls given a save_path, in which no window and no user take part.
C14_FigureReleased ==
    [][(/\ pc = "idle" /\ pc' = "returned"
        /\ args'.fn = "plot_eigenvalue_spectrum" /\ args'.save_path # "") =>
          figures' = figures]_vars

\* C15: after a call of apply_mutation (resp. calculate_jacobian) the caller's
\* array weights (resp. point) holds the elements it was passed with, and the
\* returned array is another object.
C15_InputUntouched ==
    /\ Called("apply_mutation") => heap[args.weights_ref] = args.weights
    /\ Gave("apply_mutation") => ret.ref # args.weights_ref
    /\ Called("calculate_jacobian") => heap[args.point_ref] = args.point
    /\ Gave("calculate_jacobian") => ret.ref # args.point_ref

\* C15 witness: a call of apply_mutation that changed an entry of its result,
\* the caller's array being as it was.
C15_Witness ==
    /\ Gave("apply_mutation")
    /\ ret.value.ndarray # args.weights
    /\ heap[ret.ref] = ret.value.ndarray
    /\ heap[args.weights_ref] = args.weights

\* C16: for a linear system f(y) = A.y, calculate_jacobian returns A at every
\* point and for every element type of the point array (epsilon > 0).
C16_JacobianOfLinear ==
    (Gave("calculate_jacobian") /\ args.epsilon > 0) =>
        \A j, i \in 1..2 :
            /\ ret.value.jacobian[j][i][2] # 0
            /\ ret.value.jacobian[j][i][1] = args.func.A[j][i] * ret.value.jacobian[j][i][2]

\* C17: analyze_stability gives one stability_type, fixed by the eigenvalues
\* it returns: "Stable Node" exactly when every real part is < 0 and every
\* imaginary part is 0, "Stable Spiral" exactly when every real part is < 0
\* and some imaginary part is not 0, "Unstable Node" and "Unstable Spiral" the
\* same with real parts > 0, "Saddle Point" exactly when real parts of both
\* signs occur.
C17_Classification ==
    Gave("analyze_stability") =>
        LET e == ret.value.eigenvalues
            t == ret.value.stability_type
            neg == \A i \in DOMAIN e : e[i].re < 0
            pos == \A i \in DOMAIN e : e[i].re > 0
            real == \A i \in DOMAIN e : e[i].im = 0
        IN  /\ e = eigvals(args.jacobian)
            /\ (t = "Stable Node") = (neg /\ real)
            /\ (t = "Stable Spiral") = (neg /\ ~real)
            /\ (t = "Unstable Node") = (pos /\ real)
            /\ (t = "Unstable Spiral") = (pos /\ ~real)
            /\ (t = "Saddle Point") =
                   ((\E i \in DOMAIN e : e[i].re > 0) /\ (\E i \in DOMAIN e : e[i].re < 0))

\* C17 witness: a Jacobian with complex eigenvalues of negative real part,
\* classified as a stable spiral.
C17_Witness ==
    /\ Gave("analyze_stability")
    /\ ret.value.stability_type = "Stable Spiral"
    /\ \E i \in 1..2 : ret.value.eigenvalues[i].im # 0

\* C18: every row find_fixed_points returns is a point where func vanishes;
\* a guess from which the solver does not converge gives no row.
C18_OnlyConverged ==
    Gave("find_fixed_points") =>
        \A g \in DOMAIN ret.value.fixed_points :
            func(args.func, ret.value.fixed_points[g]) = <<0, 0>>

C20_Interpretation ==
    Called("compute_persistent_homology") =>
        IF ~args.points_is_array \/ args.points_ndim # 2
        THEN ret.raised = "TypeError"
        ELSE IF args.max_dim_type # "int" \/ args.max_dim < 0
        THEN ret.raised = "ValueError"
        ELSE /\ ret.raised = "none"
             /\ ret.value.distance_matrix = (args.points_holds = "distances")

\* C21: calculate_semantic_coverage returns the mean of the cosine
\* similarities over all pairs (input embedding, primitive).
C21_MeanOfAllPairs ==
    Gave("calculate_semantic_coverage") =>
        LET sim == cosine_similarity(args.input_embeddings, args.primitive_set)
            total == SumSeq([i \in 1..Len(sim) |-> SumSeq(sim[i])])
        IN  FracEq(ret.value.coverage,
                   <<total, Len(args.input_embeddings) * Len(args.primitive_set)>>)

\* C22: linear_system_solver has two outcomes.  For a square non-singular
\* numeric A and a b of matching length, given as lists or as arrays, it
\* returns x with A.x = b.  Every other input raises and returns nothing: a
\* non-square A ValueError "must be square", a b of another length ValueError
\* "Incompatible shapes", a singular A LinAlgError naming the singularity,
\* None or empty or NaN or infinite input ValueError, non-numeric data
\* TypeError.
C22_SolverOutcomes ==
    Called("linear_system_solver") =>
        LET A == args.A
            b == args.b
            square == Len(A) > 0 /\ \A i \in 1..Len(A) : Len(A[i]) = Len(A)
            matching == Len(b) = Len(A)
            plain == args.defect = "none" /\ Len(A) > 0 /\ Len(b) > 0
        IN  /\ (plain /\ square /\ matching /\ np_linalg_det(A) # 0) =>
                  /\ ret.raised = "none"
                  /\ \A i \in 1..Len(A) :
                        SumSeq([j \in 1..Len(A) |-> A[i][j] * ret.value.x[j][1]])
                            = b[i] * np_linalg_det(A)
                  /\ \A j \in 1..Len(A) : ret.value.x[j][2] = np_linalg_det(A)
            /\ ~(plain /\ square /\ matching /\ np_linalg_det(A) # 0) =>
                  ret.raised # "none"
            /\ (plain /\ ~square) =>
                  (ret.raised = "ValueError" /\ ret.value.message = "must be square")
            /\ (plain /\ square /\ ~matching) =>
                  (ret.raised = "ValueError" /\ ret.value.message = "Incompatible shapes")
            /\ (plain /\ square /\ matching /\ np_linalg_det(A) = 0) =>
                  (ret.raised = "LinAlgError" /\ ret.value.message = "Singular matrix")
            /\ (args.defect \in {"A_none", "b_none", "A_nan", "b_inf"}) =>
                  ret.raised = "ValueError"
            /\ (args.defect = "none" /\ (Len(A) = 0 \/ Len(b) = 0)) =>
                  ret.raised = "ValueError"
            /\ (args.defect = "non_numeric") => ret.raised = "TypeError"

\* C22 witness: a 2 x 2 system given as lists, solved with a solution that
\* is not an integer.
C22_Witness ==
    /\ Gave("linear_system_solver")
    /\ args.as_list
    /\ Len(args.A) = 2
    /\ \E j \in 1..2 : ret.value.x[j][1] % Abs(ret.value.x[j][2]) # 0

Constant(s) == \A i, j \in DOMAIN s : s[i] = s[j]

\* C23: on constant data of any length >= 1, a single value included,
\* calculate_descriptive_stats returns variance 0, stdev 0, skewness 0 and
\* kurtosis 0, none of them nan, mean = min = max = the constant and count =
\* the number of values.
C23_ConstantData ==
    (/\ Called("calculate_descriptive_stats")
     /\ args.defect = "none" /\ args.nan_policy \in {"propagate", "omit", "raise"}
     /\ Len(args.data) >= 1 /\ Constant(args.data) /\ args.data[1] # NaN)
    => /\ ret.raised = "none"
       /\ \A k \in {"variance", "stdev", "skewness", "kurtosis"} :
             ~isnan(ret.value[k]) /\ ret.value[k][1] = 0
       /\ ~isnan(ret.value.mean)
       /\ ret.value.mean[1] = args.data[1] * ret.value.mean[2]
       /\ ret.value.min = args.data[1]
       /\ ret.value.max = args.data[1]
       /\ ret.value.count = Len(args.data)

\* C23 witness: the statistics of a single value.
C23_Witness ==
    /\ Gave("calculate_descriptive_stats")
    /\ Len(args.data) = 1
    /\ ret.value.count = 1
    /\ ret.value.variance = <<0, 1>>

\* C24: the NaN policy of calculate_descriptive_stats.  With "omit" the NaNs
\* are left out of count, mean and variance; with "raise" any NaN in the data
\* raises ValueError and nothing is returned; with "propagate" mean, variance
\* and stdev are nan while count, min and max are those of the other values;
\* any other policy raises ValueError.
C24_NanPolicy ==
    (/\ Called("calculate_descriptive_stats")
     /\ args.defect = "none" /\ Len(args.data) >= 1)
    => LET numbers == SelectSeq(args.data, LAMBDA v : v # NaN)
           n == Len(numbers)
           has_nan == n < Len(args.data)
           p == args.nan_policy
       IN  /\ (p \notin {"propagate", "omit", "raise"}) => ret.raised = "ValueError"
           /\ (p = "raise" /\ has_nan) => ret.raised = "ValueError"
           /\ (p = "omit") =>
                 /\ ret.raised = "none"
                 /\ ret.value.count = n
                 /\ FracEq(ret.value.mean, <<SumSeq(numbers), n>>) /\ ~isnan(ret.value.mean)
                 /\ n >= 2 => /\ ~isnan(ret.value.variance)
                              /\ FracEq(ret.value.variance,
                                        <<moments(numbers).S2, n * n * (n - 1)>>)
           /\ (p = "propagate" /\ has_nan) =>
                 /\ ret.raised = "none"
                 /\ isnan(ret.value.mean)
                 /\ isnan(ret.value.variance)
                 /\ isnan(ret.value.stdev)
                 /\ ret.value.count = n
                 /\ \E i \in 1..n : numbers[i] = ret.value.min
                 /\ \E i \in 1..n : numbers[i] = ret.value.max
                 /\ \A i \in 1..n : ret.value.min <= numbers[i] /\ numbers[i] <= ret.value.max

\* C24 witness: data with a NaN beside two different numbers under the
\* policy "omit".
C24_Witness ==
    /\ Gave("calculate_descriptive_stats")
    /\ args.nan_policy = "omit"
    /\ \E i \in DOMAIN args.data : args.data[i] = NaN
    /\ ret.value.count = 2
    /\ ret.value.min < ret.value.max

\* C25: in a sequence of calls of apply_stdp where each call receives the
\* weight and the trace the previous call returned, no call fails validation,
\* and the returned weight is consistent in sign with the polarity flag.
C25_ClosedUnderIteration ==
    /\ calls >= 2 => pc = "returned"
    /\ Returned => IF args.is_inhibitory THEN ret.new_weight <= 0
                   ELSE ret.new_weight >= 0

\* a spike train with every spike c later
Shifted(s, c) == [i \in 1..Len(s) |-> s[i] + c]

Offsets == {-TimeStep, TimeStep, 3 * TimeStep}

\* C26: adding the same constant to every element of spike_times_pre and of
\* spike_times_post, every other argument kept, returns the same weight and
\* the same eligibility trace.
C26_TimeTranslation ==
    Returned =>
        \A c \in Offsets :
            LET r == apply_stdp([args EXCEPT
                         !.spike_times_pre = Shifted(args.spike_times_pre, c),
                         !.spike_times_post = Shifted(args.spike_times_post, c)])
            IN  /\ r.raised = "none"
                /\ r.new_weight = ret.new_weight
                /\ r.new_eligibility_trace = ret.new_eligibility_trace

\* C26 witness: a call with two pre-synaptic and two post-synaptic spikes,
\* potentiating and depressing pairs among them, that changed the weight.
C26_Witness ==
    /\ Returned
    /\ Len(args.spike_times_pre) = 2 /\ Len(args.spike_times_post) = 2
    /\ has_potentiation(args) /\ has_depression(args)
    /\ ret.new_weight # args.current_weight

C28_TraceIgnoresWeight ==
    Returned =>
        \A w \in (IF args.is_inhibitory THEN InhWeights ELSE ExcWeights),
           eta \in Etas, b \in BoundsFor(args.is_inhibitory) :
            LET r == apply_stdp([args EXCEPT !.current_weight = w, !.eta = eta,
                                             !.weight_bounds = b])
            IN  r.raised = "none" => r.new_eligibility_trace = ret.new_eligibility_trace

\* C29: analyze_stability returns "Center (Marginally Stable)" only if no
\* eigenvalue of the Jacobian has a positive real part, and a "Stable ..."
\* label only if every eigenvalue has a negative real part.
C29_NoGrowingCenter ==
    Gave("analyze_stability") =>
        LET e == eigvals(args.jacobian)
            t == ret.value.stability_type
        IN  /\ (t = "Center (Marginally Stable)") => \A i \in DOMAIN e : e[i].re <= 0
            /\ (t \in {"Stable Node", "Stable Spiral"}) => \A i \in DOMAIN e : e[i].re < 0

\* C30: for every duration > 0 and dt > 0 the time grid and the random draw
\* of generate_fractal_spike_train have the same length n_steps, the call
\* completes without a shape error, and the returned spike times are distinct
\* multiples of dt in [0, duration), in strictly increasing order.
C30_GridMatchesDraw ==
    (/\ Called("generate_fractal_spike_train")
     /\ args.duration > 0 /\ args.dt > 0 /\ args.tau_f > 0)
    => /\ arange_len(args.duration, args.dt) = int_of_quotient(args.duration, args.dt)
       /\ ret.raised = "none"
       /\ \A j \in DOMAIN ret.value.ndarray :
             /\ ret.value.ndarray[j] % args.dt = 0
             /\ 0 <= ret.value.ndarray[j] /\ ret.value.ndarray[j] < args.duration
             /\ j > 1 => ret.value.ndarray[j - 1] < ret.value.ndarray[j]

====
